---- MODULE Spec2Model ----
(***************************************************************************)
(* Model of parse.py: the otpauth-migration decoder.                       *)
(*                                                                         *)
(* A Python string is a sequence of tokens; the token NL is the newline    *)
(* character, so that "\n".join and print keep their exact effect.  A      *)
(* Python call either returns a value or raises: every function of the     *)
(* program is an operator whose value is a record [exc, val], exc = "None" *)
(* for a normal return and the name of the exception class otherwise.      *)
(***************************************************************************)
EXTENDS Integers, Sequences, FiniteSets, TLC

VARIABLES pc, args, input, line_no, results, stdout, stderr, outfile,
          exit_code, log

vars == <<pc, args, input, line_no, results, stdout, stderr, outfile,
          exit_code, log>>

----------------------------------------------------------------------------
(* Bounds of the model. *)

\* Largest number of lines in the batch file.
MaxLines == 2

\* Largest number of OtpParameter entries in one payload.
MaxParams == 2

----------------------------------------------------------------------------
(* Enumerations of OtpMigration_pb2 (the generated binding). *)

ALGORITHM_UNSPECIFIED == 0
SHA1 == 1
SHA256 == 2
SHA512 == 3
MD5 == 4

DIGIT_COUNT_UNSPECIFIED == 0
SIX == 1
EIGHT == 2

OTP_TYPE_UNSPECIFIED == 0
HOTP == 1
TOTP == 2

Return(v) == [exc |-> "None", val |-> v]
Raise(e, msg) == [exc |-> e, val |-> msg]

\* otp.Algorithm.Name(number): ValueError when the number has no name.
AlgorithmName(n) ==
    CASE n = ALGORITHM_UNSPECIFIED -> Return("UNSPECIFIED")
      [] n = SHA1 -> Return("SHA1")
      [] n = SHA256 -> Return("SHA256")
      [] n = SHA512 -> Return("SHA512")
      [] n = MD5 -> Return("MD5")
      [] OTHER -> Raise("ValueError", "Enum Algorithm has no name defined for value")

\* otp.DigitCount.Name(number).
DigitCountName(n) ==
    CASE n = DIGIT_COUNT_UNSPECIFIED -> Return("UNSPECIFIED")
      [] n = SIX -> Return("SIX")
      [] n = EIGHT -> Return("EIGHT")
      [] OTHER -> Raise("ValueError", "Enum DigitCount has no name defined for value")

\* otp.OtpType.Name(number).
OtpTypeName(n) ==
    CASE n = OTP_TYPE_UNSPECIFIED -> Return("UNSPECIFIED")
      [] n = HOTP -> Return("HOTP")
      [] n = TOTP -> Return("TOTP")
      [] OTHER -> Raise("ValueError", "Enum OtpType has no name defined for value")

\* str.lower() on the enum names.
lower(s) ==
    CASE s = "UNSPECIFIED" -> "unspecified"
      [] s = "SHA1" -> "sha1"
      [] s = "SHA256" -> "sha256"
      [] s = "SHA512" -> "sha512"
      [] s = "MD5" -> "md5"
      [] s = "HOTP" -> "hotp"
      [] s = "TOTP" -> "totp"
      [] OTHER -> s

----------------------------------------------------------------------------
(* Text helpers. *)

NL == [field |-> "\n", value |-> ""]

\* One line of text without its newline.
Line(f, v) == <<[field |-> f, value |-> v]>>

RECURSIVE Join(_, _)
\* sep.join(strs)
Join(sep, strs) ==
    IF strs = <<>> THEN <<>>
    ELSE IF Len(strs) = 1 THEN strs[1]
    ELSE strs[1] \o sep \o Join(sep, Tail(strs))

\* urllib.parse.quote on a string given as a sequence of characters:
\* the reserved characters are escaped, the others kept.
quote_char(c) ==
    CASE c = ":" -> "%3A"
      [] c = "@" -> "%40"
      [] c = "?" -> "%3F"
      [] c = "&" -> "%26"
      [] c = " " -> "%20"
      [] OTHER -> c

quote(s) == [k \in 1..Len(s) |-> quote_char(s[k])]

\* The RFC 4648 base32 alphabet.
B32Alphabet ==
    <<"A", "B", "C", "D", "E", "F", "G", "H", "I", "J", "K", "L", "M",
      "N", "O", "P", "Q", "R", "S", "T", "U", "V", "W", "X", "Y", "Z",
      "2", "3", "4", "5", "6", "7">>

\* Bit j (0 = most significant bit of the first byte) of a byte sequence,
\* 0 past its end.
BitOf(bytes, j) ==
    IF j >= 8 * Len(bytes) THEN 0
    ELSE (bytes[(j \div 8) + 1] \div (2 ^ (7 - (j % 8)))) % 2

\* base64.b32encode: 5 bits per character, padded with "=" to a multiple of
\* 8 characters.
b32encode(bytes) ==
    LET nchars == (8 * Len(bytes) + 4) \div 5
        total == 8 * ((nchars + 7) \div 8)
        group(g) == 16 * BitOf(bytes, 5 * g) + 8 * BitOf(bytes, 5 * g + 1)
                    + 4 * BitOf(bytes, 5 * g + 2) + 2 * BitOf(bytes, 5 * g + 3)
                    + BitOf(bytes, 5 * g + 4)
    IN [k \in 1..total |->
           IF k <= nchars THEN B32Alphabet[group(k - 1) + 1] ELSE "="]

----------------------------------------------------------------------------
(* Transport encodings.  An encoded value is a record [encoding, of]: the  *)
(* decoder of a layer strips it, and fails on a value that is not          *)
(* well-formed for that layer.                                             *)

PercentEncoded(x) == [encoding |-> "percent", of |-> x]
Base64Of(bytes) == [encoding |-> "base64", of |-> bytes]
WireOf(payload) == [encoding |-> "wire", of |-> payload]
\* Text that is not base64 (incorrect padding); bytes that are not a message.
NotBase64 == [encoding |-> "text", of |-> "not-base64"]
NotAMessage == [encoding |-> "bytes", of |-> "truncated"]

\* urllib.parse.unquote: decodes the %-escapes, and leaves a string without
\* any as it is.
unquote(x) == IF x.encoding = "percent" THEN x.of ELSE x

\* base64.b64decode: binascii.Error on malformed input.
b64decode(x) ==
    IF x.encoding = "base64" THEN Return(x.of)
    ELSE Raise("binascii.Error", "Incorrect padding")

\* otp.MigrationPayload.FromString: DecodeError on malformed bytes.
FromString(bytes) ==
    IF bytes.encoding = "wire" THEN Return(bytes.of)
    ELSE Raise("DecodeError", "Error parsing message")

----------------------------------------------------------------------------
(* The functions of parse.py. *)

num_digits(digit_count) ==
    IF digit_count = SIX THEN Return(6)
    ELSE IF digit_count = EIGHT THEN Return(8)
    ELSE Raise("ValueError", "Invalid DigitCount, expecting SIX or EIGHT")

\* A URL is [scheme, query]; the query is the sequence of its name=value
\* pairs, the values still percent-encoded.  parse_qs gives the names and,
\* for each name, its decoded values in order.
parse_qs(query) ==
    [names |-> {query[k].name : k \in 1..Len(query)},
     values |-> [n \in {query[k].name : k \in 1..Len(query)} |->
                   LET at == {k \in 1..Len(query) : query[k].name = n}
                       first == CHOOSE k \in at : \A j \in at : k <= j
                   IN <<unquote(query[first].value)>>]]

\* parse_url without its test of the scheme.
parse_url_any_scheme(url) ==
    LET qs == parse_qs(url.query)
    IN IF "data" \notin qs.names
       THEN Raise("ValueError", "Missing data field in query string")
       ELSE Return(unquote(qs.values["data"][1]))

parse_url(url) ==
    IF url.scheme # "otpauth-migration"
    THEN Raise("TypeError", "Only otpauth-migration URLs can be parsed")
    ELSE LET qs == parse_qs(url.query)
         IN IF "data" \notin qs.names
            THEN Raise("ValueError", "Missing data field in query string")
            ELSE Return(unquote(qs.values["data"][1]))

decode_qs(data) == b64decode(unquote(data))

\* The eight lines decode_secrets appends for one OtpParameter, or the
\* first exception raised while building them.
otp_parameter_lines(params) ==
    LET type_name == OtpTypeName(params.type)
        algorithm_name == AlgorithmName(params.algorithm)
        digits == num_digits(params.algorithm)
        digits_name == DigitCountName(params.digits)
    IN IF type_name.exc # "None" THEN type_name
       ELSE IF algorithm_name.exc # "None" THEN algorithm_name
       ELSE IF digits.exc # "None" THEN digits
       ELSE IF digits_name.exc # "None" THEN digits_name
       ELSE Return(<<
           Line("otpauth_url",
                [type |-> lower(type_name.val),
                 label_issuer |-> quote(params.issuer),
                 label_name |-> quote(params.name),
                 secret |-> b32encode(params.secret),
                 issuer |-> quote(params.issuer),
                 algorithm |-> lower(algorithm_name.val),
                 digits |-> digits.val,
                 counter |-> params.counter]),
           Line("secret", b32encode(params.secret)),
           Line("name", params.name),
           Line("issuer", params.issuer),
           Line("algorithm", algorithm_name.val),
           Line("digits", digits_name.val),
           Line("type", type_name.val),
           Line("counter", params.counter) \o <<NL>> >>)

RECURSIVE decode_loop_keeps_partial(_, _)
\* The loop ending at the first entry that fails, and returning what it has.
decode_loop_keeps_partial(_data, otp_parameters) ==
    IF otp_parameters = <<>> THEN Return(Join(<<NL>>, _data))
    ELSE LET lines == otp_parameter_lines(Head(otp_parameters))
         IN IF lines.exc # "None" THEN Return(Join(<<NL>>, _data))
            ELSE decode_loop_keeps_partial(_data \o lines.val,
                                           Tail(otp_parameters))

RECURSIVE decode_loop_last_first(_, _)
\* The loop taking the entries from the last to the first.
decode_loop_last_first(_data, otp_parameters) ==
    IF otp_parameters = <<>> THEN Return(Join(<<NL>>, _data))
    ELSE LET lines == otp_parameter_lines(otp_parameters[Len(otp_parameters)])
         IN IF lines.exc # "None" THEN lines
            ELSE decode_loop_last_first(
                     _data \o lines.val,
                     SubSeq(otp_parameters, 1, Len(otp_parameters) - 1))

RECURSIVE decode_loop(_, _)
\* The loop of decode_secrets over the entries still to format, and the
\* return that follows it.
decode_loop(_data, otp_parameters) ==
    IF otp_parameters = <<>> THEN Return(Join(<<NL>>, _data))
    ELSE LET lines == otp_parameter_lines(Head(otp_parameters))
         IN IF lines.exc # "None" THEN lines
            ELSE decode_loop(_data \o lines.val, Tail(otp_parameters))

\* process_url always passes a MigrationPayload, so the isinstance branch
\* that parses raw bytes first is never taken.
decode_secrets(payload) ==
    decode_loop(
        << Line("version", payload.version),
           Line("batch_size", payload.batch_size),
           Line("batch_index", payload.batch_index),
           Line("batch_id", payload.batch_id),
           Line("otp_parameters:", "") >>,
        payload.otp_parameters)

\* process_url: [exc, val, is_none, eprint, stages].  Without an exception
\* val is the returned string, unless is_none (the function returned None);
\* eprint is what the function printed to the error stream; stages lists the
\* pipeline stages entered, in order.
process_url(url_input) ==
    LET data == parse_url(url_input)
    IN IF data.exc \in {"TypeError", "ValueError"}
       THEN [exc |-> "None", val |-> <<>>, is_none |-> TRUE,
             eprint |-> <<data.val>>, stages |-> <<"parse_url">>]
       ELSE LET decoded_data == decode_qs(data.val)
            IN IF decoded_data.exc # "None"
               THEN decoded_data @@
                    [is_none |-> FALSE, eprint |-> <<>>,
                     stages |-> <<"parse_url", "decode_qs">>]
               ELSE LET payload == FromString(decoded_data.val)
                    IN IF payload.exc # "None"
                       THEN payload @@
                            [is_none |-> FALSE, eprint |-> <<>>,
                             stages |-> <<"parse_url", "decode_qs", "FromString">>]
                       ELSE decode_secrets(payload.val) @@
                            [is_none |-> FALSE, eprint |-> <<>>,
                             stages |-> <<"parse_url", "decode_qs",
                                          "FromString", "decode_secrets">>]

----------------------------------------------------------------------------
(* The inputs of a run. *)

RECURSIVE SeqsUpTo(_, _)
\* The sequences over S of length at most n.
SeqsUpTo(S, n) ==
    IF n = 0 THEN {<<>>}
    ELSE LET shorter == SeqsUpTo(S, n - 1)
         IN shorter \cup {Append(q, x) : q \in {r \in shorter : Len(r) = n - 1}, x \in S}

\* The OtpParameter entries of the payloads: an entry the code formats with
\* its own digit count, one it formats with another digit count, and one it
\* fails on.
InputParameters ==
    {[secret |-> <<255>>, name |-> <<"a", "@">>, issuer |-> <<":">>,
      algorithm |-> a, digits |-> SIX, type |-> TOTP, counter |-> 0] :
        a \in {SHA1, SHA256, SHA512}}

InputPayloads ==
    {[version |-> 1, batch_size |-> 1, batch_index |-> 0, batch_id |-> 42,
      otp_parameters |-> ps] : ps \in SeqsUpTo(InputParameters, MaxParams)}

InputData ==
    {NotBase64, Base64Of(NotAMessage)}
        \cup {Base64Of(WireOf(p)) : p \in InputPayloads}

DataQuery(d) == <<[name |-> "data", value |-> PercentEncoded(d)]>>

InputURLs ==
    {[scheme |-> "otpauth-migration", query |-> DataQuery(d)] : d \in InputData}
        \cup {[scheme |-> "otpauth-migration", query |-> <<>>],
              [scheme |-> "http", query |-> <<>>],
              [scheme |-> "http", query |-> DataQuery(NotBase64)]}

\* A line of the batch file, stripped: empty for a blank line, else a URL.
InputLines == {<<>>} \cup {<<u>> : u \in InputURLs}

----------------------------------------------------------------------------
(* main *)

\* What the interpreter writes for an exception nobody catches.
Traceback(exc) ==
    << "Traceback (most recent call last):",
       "<module>: main()",
       "main: process_url",
       "process_url",
       exc >>

Init ==
    /\ pc = "start"
    /\ args \in [file : BOOLEAN, output : BOOLEAN]
    /\ IF args.file
       THEN \/ input = [exists |-> FALSE, lines |-> <<>>]
            \/ \E ls \in SeqsUpTo(InputLines, MaxLines) :
                  input = [exists |-> TRUE, lines |-> ls]
       ELSE \E u \in InputURLs : input = [url |-> u]
    /\ line_no = 0
    /\ results = <<>>
    /\ stdout = <<>>
    /\ stderr = <<>>
    /\ outfile = [written |-> FALSE, text |-> <<>>]
    /\ exit_code = -1
    /\ log = <<>>

\* result = process_url(url_input); if result is not None: results.append.
\* An exception of process_url is caught nowhere: the process ends there.
CallProcessUrl(url_input, next_pc) ==
    \E result \in {process_url(url_input)} :
       /\ results' = IF result.exc = "None" /\ ~result.is_none
                     THEN Append(results, result.val) ELSE results
       /\ stderr' = stderr \o result.eprint
                      \o (IF result.exc # "None" THEN Traceback(result.exc) ELSE <<>>)
       /\ pc' = IF result.exc # "None" THEN "exited" ELSE next_pc
       /\ exit_code' = IF result.exc # "None" THEN 1 ELSE exit_code
       /\ log' = Append(log, [line |-> line_no', url |-> url_input,
                              stages |-> result.stages, exc |-> result.exc,
                              appended |-> Len(results') - Len(results),
                              diagnostics |-> Len(stderr') - Len(stderr)])

\* --file with a path that does not exist.
FileNotFound ==
    /\ pc = "start" /\ args.file /\ ~input.exists
    /\ stderr' = Append(stderr, "File not found")
    /\ exit_code' = 4
    /\ pc' = "exited"
    /\ UNCHANGED <<args, input, line_no, results, stdout, outfile, log>>

\* --file with a path that exists: the file is opened.
OpenFile ==
    /\ pc = "start" /\ args.file /\ input.exists
    /\ pc' = "lines"
    /\ UNCHANGED <<args, input, line_no, results, stdout, stderr, outfile,
                   exit_code, log>>

\* One iteration of the loop over the lines of the file.
NextLine ==
    /\ pc = "lines" /\ line_no < Len(input.lines)
    /\ line_no' = line_no + 1
    /\ LET url_input == input.lines[line_no + 1]
       IN IF url_input # <<>>
          THEN CallProcessUrl(url_input[1], "lines")
          ELSE UNCHANGED <<pc, results, stderr, exit_code, log>>
    /\ UNCHANGED <<args, input, stdout, outfile>>

\* The loop ends with the file.
EndOfFile ==
    /\ pc = "lines" /\ line_no = Len(input.lines)
    /\ pc' = "output"
    /\ UNCHANGED <<args, input, line_no, results, stdout, stderr, outfile,
                   exit_code, log>>

\* Without --file the input is the URL.
SingleUrl ==
    /\ pc = "start" /\ ~args.file
    /\ line_no' = line_no
    /\ CallProcessUrl(input.url, "output")
    /\ UNCHANGED <<args, input, stdout, outfile>>

\* print(x): the text and a newline.
print(stream, text) == stream \o text \o <<NL>>

\* The report printed even when it goes to the --output file.
report_stdout_always_prints(output, output_text) ==
    IF output
    THEN print(print(stdout, output_text), Line("Output written to", "output"))
    ELSE print(stdout, output_text)

\* What main leaves on the standard output.
report_stdout(output, output_text) ==
    IF output THEN print(stdout, Line("Output written to", "output"))
    ELSE print(stdout, output_text)

\* What main leaves in the --output file.
report_outfile(output, output_text) ==
    IF output THEN [written |-> TRUE, text |-> output_text]
    ELSE outfile

\* output_text = "\n".join(results), written to --output or printed.
WriteReport ==
    /\ pc = "output"
    /\ LET output_text == Join(<<NL>>, results)
       IN /\ stdout' = report_stdout(args.output, output_text)
          /\ outfile' = report_outfile(args.output, output_text)
    /\ exit_code' = 0
    /\ pc' = "exited"
    /\ UNCHANGED <<args, input, line_no, results, stderr, log>>

Next ==
    \/ FileNotFound
    \/ OpenFile
    \/ NextLine
    \/ EndOfFile
    \/ SingleUrl
    \/ WriteReport

Spec == Init /\ [][Next]_vars

----------------------------------------------------------------------------
(* Notions the properties are stated with. *)

\* The URL names a data parameter.
HasData(url) == \E k \in 1..Len(url.query) : url.query[k].name = "data"

\* The payload a URL carries, for a URL that decodes down to one.
PayloadOf(url) == FromString(decode_qs(parse_url(url).val).val).val

\* The URL fails: process_url raises or returns None.
Fails(url) == LET r == process_url(url) IN r.exc # "None" \/ r.is_none

\* The URLs of the run, in input order.
InputUrlSeq ==
    IF ~args.file THEN <<input.url>>
    ELSE LET nonblank == SelectSeq(input.lines, LAMBDA l : l # <<>>)
         IN [k \in 1..Len(nonblank) |-> nonblank[k][1]]

\* The run ended, and not for a missing batch file.
Ended == pc = "exited" /\ (args.file => input.exists)

\* The report reached its destination: the --output file, or standard output.
ReportEmitted ==
    IF args.output
    THEN outfile = [written |-> TRUE, text |-> Join(<<NL>>, results)]
    ELSE stdout = Join(<<NL>>, results) \o <<NL>>

\* The position in results of what the k-th processed URL appended.
ResultIndex(k) == Cardinality({j \in 1..k : log[j].appended = 1})

\* The lines of a text: its tokens without the newlines.
Fields(text) == SelectSeq(text, LAMBDA t : t.field # "\n")

\* The otpauth:// URIs of a text, in order.
Uris(text) == SelectSeq(text, LAMBDA t : t.field = "otpauth_url")

ConfirmationLine == Line("Output written to", "output") \o <<NL>>

----------------------------------------------------------------------------
(* Properties. *)

\* C1: in batch mode a failure of any pipeline stage on one line never
\* aborts the batch: when the run ends every non-blank line of the file has
\* been processed, and the results accumulated are emitted in the report.
C1_BatchNeverAborted ==
    (Ended /\ args.file) =>
        /\ \A n \in 1..Len(input.lines) :
              input.lines[n] # <<>> =>
                  \E k \in 1..Len(log) : log[k].line = n
        /\ ReportEmitted

\* C2: a batch of n non-blank lines of which k fail ends with a report of
\* exactly n-k blocks, in the order of their lines, and exactly k
\* diagnostics on the error stream.
C2_BlocksInOrderAndDiagnostics ==
    (Ended /\ args.file) =>
        LET urls == InputUrlSeq
            good == SelectSeq(urls, LAMBDA u : ~Fails(u))
        IN /\ ReportEmitted
           /\ results = [j \in 1..Len(good) |-> process_url(good[j]).val]
           /\ Len(stderr) = Len(urls) - Len(good)

\* C3: the digits value of every emitted otpauth:// URI is resolved from the
\* digits field of its entry, 6 for SIX and 8 for EIGHT whatever the
\* algorithm, and an entry with any other digits value yields no URI.
C3_DigitsResolvedFromDigitsField ==
    \A k \in 1..Len(log) :
        "decode_secrets" \in {log[k].stages[j] : j \in 1..Len(log[k].stages)} =>
            LET entries == PayloadOf(log[k].url).otp_parameters
                resolvable == \A i \in 1..Len(entries) :
                                  entries[i].digits \in {SIX, EIGHT}
            IN IF resolvable
               THEN /\ log[k].appended = 1
                    /\ LET uris == Uris(results[ResultIndex(k)])
                       IN /\ Len(uris) = Len(entries)
                          /\ \A i \in 1..Len(entries) :
                                uris[i].value.digits =
                                    IF entries[i].digits = SIX THEN 6 ELSE 8
               ELSE log[k].appended = 0

\* C4: a URL of another scheme than otpauth-migration, and a URL without a
\* data parameter, each yield no report entry (process_url returns None,
\* nothing is appended) and exactly one diagnostic, and neither the base64
\* nor the wire decoding stage is entered for it.
C4_RejectedUrlOneDiagnostic ==
    \A k \in 1..Len(log) :
        (log[k].url.scheme # "otpauth-migration" \/ ~HasData(log[k].url)) =>
            /\ log[k].exc = "None"
            /\ log[k].appended = 0
            /\ log[k].diagnostics = 1
            /\ log[k].stages = <<"parse_url">>

\* A batch in which a URL of scheme http that has a data parameter and an
\* otpauth-migration URL without one have both been processed.
C4_Witness ==
    /\ \E k \in 1..Len(log) :
          log[k].url.scheme = "http" /\ HasData(log[k].url)
    /\ \E k \in 1..Len(log) :
          log[k].url.scheme = "otpauth-migration" /\ ~HasData(log[k].url)

\* C5: the exit code is 4 exactly when --file is given and the path does not
\* exist, and then nothing was processed, printed or written; every other
\* run ends with exit code 0.
C5_ExitCodes ==
    pc = "exited" =>
        /\ exit_code = 4 <=> (args.file /\ ~input.exists)
        /\ exit_code = 4 =>
              log = <<>> /\ stdout = <<>> /\ ~outfile.written
        /\ exit_code # 4 => exit_code = 0

\* C6: every failing URL, whatever the failing stage, produces exactly one
\* diagnostic line on the error stream, and the report (standard output and
\* the --output file) holds nothing but report text.
C6_OneDiagnosticPerFailure ==
    /\ \A k \in 1..Len(log) :
          log[k].appended = 0 => log[k].diagnostics = 1
    /\ \A t \in 1..Len(stdout) :
          stdout[t].field # "\n" =>
              \/ stdout[t].field = "Output written to"
              \/ \E r \in 1..Len(results) : \E j \in 1..Len(results[r]) :
                    results[r][j] = stdout[t]
    /\ outfile.written => outfile.text = Join(<<NL>>, results)

\* C7: when every input URL fails the run ends as a non-error result with an
\* empty report: no block accumulated, no report text on standard output.
C7_AllFailedEmptyReport ==
    (Ended /\ \A j \in 1..Len(InputUrlSeq) : Fails(InputUrlSeq[j])) =>
        /\ results = <<>>
        /\ Fields(stdout) \in {<<>>, Fields(ConfirmationLine)}
        /\ exit_code = 0

\* C8: the report goes to exactly one destination: with --output the file
\* receives the report and standard output only the confirmation line;
\* without --output the report is printed and no file is written.
C8_OneDestination ==
    /\ args.output => stdout \in {<<>>, ConfirmationLine}
    /\ ~args.output => ~outfile.written
    /\ (pc = "exited" /\ exit_code = 0) =>
          IF args.output
          THEN /\ outfile = [written |-> TRUE, text |-> Join(<<NL>>, results)]
               /\ stdout = ConfirmationLine
          ELSE /\ stdout = Join(<<NL>>, results) \o <<NL>>
               /\ ~outfile.written

\* A run with --output that wrote a report of at least one block.
C8_Witness ==
    /\ pc = "exited" /\ exit_code = 0
    /\ args.output /\ outfile.written
    /\ Len(results) >= 1

\* The text is complete for the payload: its four header fields, and one
\* URI and one closing counter line per entry.
Complete(text, payload) ==
    LET fields == Fields(text)
    IN /\ Len(fields) >= 4
       /\ fields[1] = Line("version", payload.version)[1]
       /\ fields[2] = Line("batch_size", payload.batch_size)[1]
       /\ fields[3] = Line("batch_index", payload.batch_index)[1]
       /\ fields[4] = Line("batch_id", payload.batch_id)[1]
       /\ Len(Uris(text)) = Len(payload.otp_parameters)
       /\ Len(SelectSeq(text, LAMBDA t : t.field = "counter"))
             = Len(payload.otp_parameters)

\* C9: no payload is partially reported: each processed URL appended either
\* the complete text of its payload or nothing, and a payload one of whose
\* entries fails appended nothing.
C9_NoPartialPayload ==
    /\ Len(results) = ResultIndex(Len(log))
    /\ \A k \in 1..Len(log) :
          /\ log[k].appended \in {0, 1}
          /\ log[k].appended = 1 =>
                Complete(results[ResultIndex(k)], PayloadOf(log[k].url))
          /\ ("decode_secrets" \in {log[k].stages[j] : j \in 1..Len(log[k].stages)}
                /\ log[k].exc # "None") => log[k].appended = 0

\* A processed payload of two entries whose first entry formats and whose
\* second fails, after a line that was reported.
C9_Witness ==
    \E k \in 1..Len(log) :
        /\ "decode_secrets" \in {log[k].stages[j] : j \in 1..Len(log[k].stages)}
        /\ LET entries == PayloadOf(log[k].url).otp_parameters
           IN /\ Len(entries) = 2
              /\ otp_parameter_lines(entries[1]).exc = "None"
              /\ otp_parameter_lines(entries[2]).exc # "None"
        /\ Len(results) >= 1

\* C10: the text appended for a decoded payload is the header fields in the
\* order version, batch_size, batch_index, batch_id, then (after the
\* otp_parameters: label) exactly one block per entry, the i-th block
\* describing the i-th entry.
C10_HeaderThenBlocksInWireOrder ==
    \A k \in 1..Len(log) :
        log[k].appended = 1 =>
            LET payload == PayloadOf(log[k].url)
                entries == payload.otp_parameters
                fields == Fields(results[ResultIndex(k)])
                block(i) == SubSeq(fields, 5 + 8 * (i - 1) + 1, 5 + 8 * i)
            IN /\ Len(fields) = 5 + 8 * Len(entries)
               /\ SubSeq(fields, 1, 4) =
                     Line("version", payload.version)
                        \o Line("batch_size", payload.batch_size)
                        \o Line("batch_index", payload.batch_index)
                        \o Line("batch_id", payload.batch_id)
               /\ \A i \in 1..Len(entries) :
                     /\ [j \in 1..8 |-> block(i)[j].field] =
                           <<"otpauth_url", "secret", "name", "issuer",
                             "algorithm", "digits", "type", "counter">>
                     /\ block(i)[1].value.algorithm
                           = lower(AlgorithmName(entries[i].algorithm).val)
                     /\ block(i)[1].value.label_name = quote(entries[i].name)
                     /\ block(i)[2].value = b32encode(entries[i].secret)
                     /\ block(i)[3].value = entries[i].name
                     /\ block(i)[4].value = entries[i].issuer
                     /\ block(i)[5].value = AlgorithmName(entries[i].algorithm).val
                     /\ block(i)[6].value = DigitCountName(entries[i].digits).val
                     /\ block(i)[7].value = OtpTypeName(entries[i].type).val
                     /\ block(i)[8].value = entries[i].counter

\* A reported payload of two entries that differ.
C10_Witness ==
    \E k \in 1..Len(log) :
        /\ log[k].appended = 1
        /\ LET entries == PayloadOf(log[k].url).otp_parameters
           IN Len(entries) = 2 /\ entries[1] # entries[2]

====
